---- MODULE Spec2Model ----
(***************************************************************************)
(* Model of the EmotionEngine class of lib/emotion-engine.ts               *)
(* (src/unnamed/part_007, lines 118-522): webcam management, the 500 ms    *)
(* detection loop, calibration, smoothing and the snapshot/timeline API.   *)
(*                                                                         *)
(* Numbers: the engine computes with IEEE doubles.  The model computes     *)
(* with exact rationals <<n, d>> (d > 0, lowest terms), so rounding error  *)
(* of the floating-point operations is not modelled.                       *)
(***************************************************************************)
EXTENDS Integers, Sequences, FiniteSets, TLC

\* ------------------------------------------------------------------------
\* Exact rational arithmetic (stands for the doubles of the source)
\* ------------------------------------------------------------------------
Abs(x) == IF x < 0 THEN -x ELSE x

RECURSIVE Gcd(_, _)
Gcd(a, b) == IF b = 0 THEN a ELSE Gcd(b, a % b)

Rat(n, d) ==
  LET g == Gcd(Abs(n), Abs(d))
      s == IF d < 0 THEN -1 ELSE 1
  IN  IF n = 0 THEN <<0, 1>> ELSE <<(s * n) \div g, (s * d) \div g>>

RZero == <<0, 1>>
ROne == <<1, 1>>
RAdd(x, y) == Rat(x[1] * y[2] + y[1] * x[2], x[2] * y[2])
RSub(x, y) == Rat(x[1] * y[2] - y[1] * x[2], x[2] * y[2])
RMul(x, y) == Rat(x[1] * y[1], x[2] * y[2])
RDiv(x, y) == Rat(x[1] * y[2], x[2] * y[1])
RLt(x, y) == x[1] * y[2] < y[1] * x[2]
RGe(x, y) == ~RLt(x, y)
RGt(x, y) == RLt(y, x)
RMax(x, y) == IF RLt(x, y) THEN y ELSE x
RInt(k) == <<k, 1>>

\* Math.round: the nearest integer, halves rounded towards +infinity
MathRound(x) == (2 * x[1] + x[2]) \div (2 * x[2])
MathMin(a, b) == IF a < b THEN a ELSE b

\* ------------------------------------------------------------------------
\* Constants of the engine
\* ------------------------------------------------------------------------
SMOOTHING_WINDOW == 5
MIN_CONFIDENCE == Rat(1, 2)
CALIBRATION_FRAMES == 10

\* Object.entries order of an EmotionScores literal
EmotionKeys ==
  <<"neutral", "happy", "sad", "angry", "fearful", "disgusted", "surprised">>

EMPTY_SCORES ==
  [neutral |-> RZero, happy |-> RZero, sad |-> RZero, angry |-> RZero,
   fearful |-> RZero, disgusted |-> RZero, surprised |-> RZero]

\* null, for a field holding a name, an id (ids start at 1) or a record
Null == "null"
NullId == 0
NullScores == [null |-> TRUE]

\* ------------------------------------------------------------------------
\* Bounds of the model
\* ------------------------------------------------------------------------
MaxTicks == 2
MaxLongTicks == 11
MaxSnapshots == 1
MaxStreams == 1
MaxSceneChanges == 1
MaxPureLen == 4
MaxWindowLen == 7
\* ticks of the opening of a session
MaxOpeningTicks == 6
\* the interview page: questions asked, submissions that fail, and ticks
MaxQuestions == 2
MaxRetries == 1
MaxPageTicks == 1

\* ------------------------------------------------------------------------
\* Pure helpers of the engine
\* ------------------------------------------------------------------------
RECURSIVE SumField(_, _)
SumField(scoresList, k) ==
  IF scoresList = <<>> THEN RZero
  ELSE RAdd(Head(scoresList)[k], SumField(Tail(scoresList), k))

averageScores(scoresList) ==
  IF Len(scoresList) = 0 THEN EMPTY_SCORES
  ELSE [k \in DOMAIN EMPTY_SCORES |->
          RDiv(SumField(scoresList, k), RInt(Len(scoresList)))]

RECURSIVE SumSeq(_)
SumSeq(s) == IF s = <<>> THEN RZero ELSE RAdd(Head(s), SumSeq(Tail(s)))

\* an applyCalibration that renormalizes without the baseline shift
applyCalibrationNoShift(scores, baseline) ==
  LET shifted ==
        [neutral   |-> RMax(RZero, scores.neutral),
         happy     |-> RMax(RZero, scores.happy),
         sad       |-> RMax(RZero, scores.sad),
         angry     |-> RMax(RZero, scores.angry),
         fearful   |-> RMax(RZero, scores.fearful),
         disgusted |-> RMax(RZero, scores.disgusted),
         surprised |-> RMax(RZero, scores.surprised)]
      total == SumSeq([i \in 1..7 |-> shifted[EmotionKeys[i]]])
  IN  IF RGt(total, RZero)
      THEN [k \in DOMAIN EMPTY_SCORES |-> RDiv(shifted[k], total)]
      ELSE shifted

\* an applyCalibration that shifts and clamps but does not renormalize
applyCalibrationUnnormalized(scores, baseline) ==
  [neutral   |-> RMax(RZero, RSub(scores.neutral, RMul(baseline.neutral, Rat(3, 10)))),
   happy     |-> RMax(RZero, RAdd(scores.happy, RMul(baseline.neutral, Rat(5, 100)))),
   sad       |-> RMax(RZero, scores.sad),
   angry     |-> RMax(RZero, scores.angry),
   fearful   |-> RMax(RZero, scores.fearful),
   disgusted |-> RMax(RZero, scores.disgusted),
   surprised |-> RMax(RZero, scores.surprised)]

\* an applyCalibration whose happy shift follows the baseline's happy weight
applyCalibrationByHappy(scores, baseline) ==
  LET shifted ==
        [neutral   |-> RMax(RZero, RSub(scores.neutral, RMul(baseline.neutral, Rat(3, 10)))),
         happy     |-> RMax(RZero, RAdd(scores.happy, RMul(baseline.happy, Rat(5, 100)))),
         sad       |-> RMax(RZero, scores.sad),
         angry     |-> RMax(RZero, scores.angry),
         fearful   |-> RMax(RZero, scores.fearful),
         disgusted |-> RMax(RZero, scores.disgusted),
         surprised |-> RMax(RZero, scores.surprised)]
      total == SumSeq([i \in 1..7 |-> shifted[EmotionKeys[i]]])
  IN  IF RGt(total, RZero)
      THEN [k \in DOMAIN EMPTY_SCORES |-> RDiv(shifted[k], total)]
      ELSE shifted

applyCalibration(scores, baseline) ==
  LET shifted ==
        [neutral   |-> RMax(RZero, RSub(scores.neutral, RMul(baseline.neutral, Rat(3, 10)))),
         happy     |-> RMax(RZero, RAdd(scores.happy, RMul(baseline.neutral, Rat(5, 100)))),
         sad       |-> RMax(RZero, scores.sad),
         angry     |-> RMax(RZero, scores.angry),
         fearful   |-> RMax(RZero, scores.fearful),
         disgusted |-> RMax(RZero, scores.disgusted),
         surprised |-> RMax(RZero, scores.surprised)]
      total == SumSeq([i \in 1..7 |-> shifted[EmotionKeys[i]]])
  IN  IF RGt(total, RZero)
      THEN [k \in DOMAIN EMPTY_SCORES |-> RDiv(shifted[k], total)]
      ELSE shifted

\* the loop of getDominant over Object.entries(scores), entries i..7 left,
\* with the running maximum max and its label
RECURSIVE DominantFrom(_, _, _, _)
DominantFrom(scores, i, max, label) ==
  IF i > 7 THEN label
  ELSE LET key == EmotionKeys[i]
           val == scores[key]
       IN  IF RGt(val, max)
           THEN DominantFrom(scores, i + 1, val, key)
           ELSE DominantFrom(scores, i + 1, max, label)

\* the same loop with val >= max: the last maximal entry wins
RECURSIVE DominantFromLast(_, _, _, _)
DominantFromLast(scores, i, max, label) ==
  IF i > 7 THEN label
  ELSE LET key == EmotionKeys[i]
           val == scores[key]
       IN  IF RGe(val, max)
           THEN DominantFromLast(scores, i + 1, val, key)
           ELSE DominantFromLast(scores, i + 1, max, label)

getDominantLast(scores) == DominantFromLast(scores, 1, RInt(-1), "neutral")

getDominant(scores) == DominantFrom(scores, 1, RInt(-1), "neutral")

\* a validity filter that forgets the confidence gate
IsFaceFrame(f) == f.faceDetected

IsValidFrame(f) == f.faceDetected /\ RGe(f.confidence, MIN_CONFIDENCE)

\* slice(0, n) in place of slice(-n): the first n elements
SliceFirst(s, n) ==
  IF Len(s) <= n THEN s ELSE SubSeq(s, 1, n)

\* Array.prototype.slice(-n)
SliceLast(s, n) ==
  IF Len(s) <= n THEN s ELSE SubSeq(s, Len(s) - n + 1, Len(s))

ZeroSnapshot ==
  [dominant |-> "unknown", scores |-> EMPTY_SCORES, confidence |-> RZero,
   frameCount |-> 0, engagement |-> 0, stress |-> 0, positivity |-> 0]

\* a computeSmoothedSnapshot that counts the frames of the window
computeSmoothedSnapshotWindowCount(fs, baseline) ==
  LET validFrames == SelectSeq(fs, IsValidFrame)
      window == SliceLast(validFrames, SMOOTHING_WINDOW)
      avgScores == averageScores([i \in 1..Len(window) |-> window[i].emotions])
      avgConfidence ==
        RDiv(SumSeq([i \in 1..Len(window) |-> window[i].confidence]),
             RInt(Len(window)))
      calibrated ==
        IF baseline # NullScores THEN applyCalibration(avgScores, baseline)
        ELSE avgScores
      hundred == RInt(100)
  IN  IF Len(validFrames) = 0 THEN ZeroSnapshot
      ELSE [dominant |-> getDominant(calibrated),
            scores |-> calibrated,
            confidence |-> avgConfidence,
            frameCount |-> Len(window),
            engagement |->
              MathMin(100, MathRound(RMul(RSub(ROne, calibrated.neutral), hundred))),
            stress |->
              MathMin(100, MathRound(RMul(
                RAdd(RAdd(RAdd(calibrated.angry, calibrated.fearful), calibrated.sad),
                     calibrated.disgusted), hundred))),
            positivity |->
              MathMin(100, MathRound(RMul(
                RAdd(calibrated.happy, RMul(calibrated.surprised, Rat(1, 2))),
                hundred)))]

\* computeSmoothedSnapshot(frames); baseline is this.calibrationBaseline
computeSmoothedSnapshot(fs, baseline) ==
  LET validFrames == SelectSeq(fs, IsValidFrame)
      window == SliceLast(validFrames, SMOOTHING_WINDOW)
      avgScores == averageScores([i \in 1..Len(window) |-> window[i].emotions])
      avgConfidence ==
        RDiv(SumSeq([i \in 1..Len(window) |-> window[i].confidence]),
             RInt(Len(window)))
      calibrated ==
        IF baseline # NullScores THEN applyCalibration(avgScores, baseline)
        ELSE avgScores
      hundred == RInt(100)
  IN  IF Len(validFrames) = 0 THEN ZeroSnapshot
      ELSE [dominant |-> getDominant(calibrated),
            scores |-> calibrated,
            confidence |-> avgConfidence,
            frameCount |-> Len(validFrames),
            engagement |->
              MathMin(100, MathRound(RMul(RSub(ROne, calibrated.neutral), hundred))),
            stress |->
              MathMin(100, MathRound(RMul(
                RAdd(RAdd(RAdd(calibrated.angry, calibrated.fearful), calibrated.sad),
                     calibrated.disgusted), hundred))),
            positivity |->
              MathMin(100, MathRound(RMul(
                RAdd(calibrated.happy, RMul(calibrated.surprised, Rat(1, 2))),
                hundred)))]

\* ------------------------------------------------------------------------
\* The classifier boundary: what the awaited face-api call settles to
\* ------------------------------------------------------------------------
Tenths(n, h, s, a, f, d, su) ==
  [neutral |-> Rat(n, 10), happy |-> Rat(h, 10), sad |-> Rat(s, 10),
   angry |-> Rat(a, 10), fearful |-> Rat(f, 10), disgusted |-> Rat(d, 10),
   surprised |-> Rat(su, 10)]

NoFace == [kind |-> "null"]
Throws == [kind |-> "throw"]
Detection(expr, score) ==
  [kind |-> "detection", expressions |-> expr, score |-> score]

DetNeutral == Detection(Tenths(10, 0, 0, 0, 0, 0, 0), Rat(9, 10))
DetMixed == Detection(Tenths(5, 5, 0, 0, 0, 0, 0), Rat(9, 10))
\* scoreThreshold 0.4 <= score < MIN_CONFIDENCE
DetLow == Detection(Tenths(2, 8, 0, 0, 0, 0, 0), Rat(45, 100))

\* further classifier results, for the inputs of computeSmoothedSnapshot:
\* a confident happy face, weights above 1, and all weights 0
DetHappy == Detection(Tenths(0, 10, 0, 0, 0, 0, 0), Rat(6, 10))
DetBig == Detection(Tenths(20, 5, 0, 0, 0, 0, 0), Rat(9, 10))
DetZero == Detection(Tenths(0, 0, 0, 0, 0, 0, 0), Rat(9, 10))

Outcomes == {DetMixed, DetLow, NoFace, Throws}
LongOutcomes == {DetNeutral, DetMixed}

\* the callbacks the interview page hands to startDetection:
\* <<onEmotionUpdate, onFaceChange>>
CallbackArgs == {<<"setEmotionSnapshot", "setFaceDetected">>}
VideoEl == "videoEl"

\* ------------------------------------------------------------------------
\* State
\* ------------------------------------------------------------------------
VARIABLES
  modelsLoaded,           \* this.modelsLoaded
  videoElement,           \* this.videoElement: Null or VideoEl
  stream,                 \* this.stream: NullId or a stream id
  detectionInterval,      \* this.detectionInterval: NullId or an interval id
  isRunning,              \* this.isRunning
  frames,                 \* this.frames
  currentAnswerFrames,    \* this.currentAnswerFrames
  snapshots,              \* this.snapshots
  calibrationBaseline,    \* this.calibrationBaseline: NullScores or EmotionScores
  calibrationFrames,      \* this.calibrationFrames
  isCalibrating,          \* this.isCalibrating
  onEmotionUpdate,        \* this.onEmotionUpdate
  onFaceDetectionChange,  \* this.onFaceDetectionChange
  timers,                 \* environment: interval ids armed by setInterval
  live,                   \* environment: streams whose tracks are not stopped
  videoPaused,            \* environment: videoEl.paused || videoEl.ended
  acquiring,              \* startWebcam calls awaiting getUserMedia
  metaPending,            \* a startWebcam call awaits onloadedmetadata
  now,                    \* classifier calls begun so far (their tick ids)
  inflight,               \* detectFrame invocations awaiting the classifier
  frameTick,              \* history: the tick that appended each frame
  cancelled,              \* history: ticks in flight at a stopDetection/destroy
  destroyed,              \* history: destroy() has been called
  last,                   \* history: what the last step returned or called back
  page                    \* the interview page that drives the engine

engine ==
  <<modelsLoaded, videoElement, stream, detectionInterval, isRunning, frames,
    currentAnswerFrames, snapshots, calibrationBaseline, calibrationFrames,
    isCalibrating, onEmotionUpdate, onFaceDetectionChange>>
environment == <<timers, live, videoPaused, acquiring, metaPending>>
history == <<frameTick, cancelled, destroyed>>
vars == <<engine, environment, now, inflight, history, last, page>>

\* what the last step showed its caller: the value captureAnswerSnapshot
\* returned, or the callbacks a settled classifier call led to
Did(op, arg, ret, calls) ==
  [op |-> op, arg |-> arg, ret |-> ret, calls |-> calls]
Other == Did("other", Null, Null, <<>>)

\* The interview page once the candidate is loaded: mounted, nothing begun.
\* init and start are the positions of the two asynchronous halves of
\* handleStartInterview; requests and replies count the submitVoiceAnswer
\* calls awaiting submitAnswer and awaiting the spoken reply.  The last six
\* fields are history: the question in front of the candidate, the failed
\* submissions so far, the snapshots captured for this question, the calls
\* of destroy and startDetection, and where init stood when destroy ran.
PageInit ==
  [mounted |-> TRUE, phase |-> "ready", sessionId |-> FALSE,
   isSubmitting |-> FALSE, emotionReady |-> FALSE, init |-> "idle",
   start |-> "idle", requests |-> 0, replies |-> 0, question |-> 1,
   retries |-> 0, capturesHere |-> 0, destroyCalls |-> 0,
   startDetectionCalls |-> 0, initAtDestroy |-> "none"]

\* the lowest id not in use
Fresh(used) == CHOOSE i \in 1..(Cardinality(used) + 1) : i \notin used

Init ==
  /\ modelsLoaded = FALSE
  /\ videoElement = Null
  /\ stream = NullId
  /\ detectionInterval = NullId
  /\ isRunning = FALSE
  /\ frames = <<>>
  /\ currentAnswerFrames = <<>>
  /\ snapshots = <<>>
  /\ calibrationBaseline = NullScores
  /\ calibrationFrames = <<>>
  /\ isCalibrating = FALSE
  /\ onEmotionUpdate = Null
  /\ onFaceDetectionChange = Null
  /\ timers = {}
  /\ live = {}
  /\ videoPaused = TRUE
  /\ acquiring = 0
  /\ metaPending = FALSE
  /\ now = 0
  /\ inflight = {}
  /\ frameTick = <<>>
  /\ cancelled = {}
  /\ destroyed = FALSE
  /\ last = Other
  /\ page = PageInit

\* ------------------------------------------------------------------------
\* loadModels
\* ------------------------------------------------------------------------
loadModels(ok) ==
  /\ modelsLoaded' = (modelsLoaded \/ ok)
  /\ last' = Other
  /\ UNCHANGED <<videoElement, stream, detectionInterval, isRunning, frames,
                 currentAnswerFrames, snapshots, calibrationBaseline,
                 calibrationFrames, isCalibrating, onEmotionUpdate,
                 onFaceDetectionChange, environment, now, inflight, history>>

\* ------------------------------------------------------------------------
\* startWebcam: the call up to its first await, the two ways getUserMedia
\* settles, and the loadedmetadata event that resolves the second await
\* ------------------------------------------------------------------------
startWebcam ==
  /\ acquiring = 0
  /\ Cardinality(live) < MaxStreams
  /\ videoElement' = VideoEl
  /\ acquiring' = acquiring + 1
  /\ last' = Other
  /\ UNCHANGED <<modelsLoaded, stream, detectionInterval, isRunning, frames,
                 currentAnswerFrames, snapshots, calibrationBaseline,
                 calibrationFrames, isCalibrating, onEmotionUpdate,
                 onFaceDetectionChange, timers, live, videoPaused, metaPending,
                 now, inflight, history>>

startWebcamAcquired ==
  /\ acquiring > 0
  /\ LET s == Fresh(live)
     IN  /\ stream' = s
         /\ live' = live \cup {s}
  /\ videoPaused' = TRUE
  /\ acquiring' = acquiring - 1
  /\ metaPending' = TRUE
  /\ last' = Other
  /\ UNCHANGED <<modelsLoaded, videoElement, detectionInterval, isRunning,
                 frames, currentAnswerFrames, snapshots, calibrationBaseline,
                 calibrationFrames, isCalibrating, onEmotionUpdate,
                 onFaceDetectionChange, timers, now, inflight, history>>

startWebcamRejected ==
  /\ acquiring > 0
  /\ acquiring' = acquiring - 1
  /\ last' = Other
  /\ UNCHANGED <<engine, timers, live, videoPaused, metaPending, now,
                 inflight, history>>

startWebcamLoaded ==
  /\ metaPending
  /\ videoPaused' = FALSE
  /\ metaPending' = FALSE
  /\ last' = Other
  /\ UNCHANGED <<engine, timers, live, acquiring, now, inflight, history>>

\* the assignments of stopWebcam (also the second half of destroy);
\* videoEl.srcObject = null unloads the element: it is paused again and a
\* pending loadedmetadata never fires
StopWebcamEffect ==
  /\ stream' = NullId
  /\ live' = IF stream # NullId THEN live \ {stream} ELSE live
  /\ videoElement' = Null
  /\ videoPaused' = IF videoElement # Null THEN TRUE ELSE videoPaused
  /\ metaPending' = IF videoElement # Null THEN FALSE ELSE metaPending

stopWebcam ==
  /\ StopWebcamEffect
  /\ last' = Other
  /\ UNCHANGED <<modelsLoaded, detectionInterval, isRunning, frames,
                 currentAnswerFrames, snapshots, calibrationBaseline,
                 calibrationFrames, isCalibrating, onEmotionUpdate,
                 onFaceDetectionChange, timers, acquiring, now, inflight,
                 history>>

\* ------------------------------------------------------------------------
\* startDetection / stopDetection
\* ------------------------------------------------------------------------
\* a startDetection without the isRunning guard: a second call arms a second
\* interval
startDetectionUnguarded(onUpdate, onFaceChange) ==
  /\ last' = Other
  /\ IF ~modelsLoaded \/ videoElement = Null
     THEN UNCHANGED <<engine, environment, now, inflight, history>>
     ELSE /\ onEmotionUpdate' = onUpdate
          /\ onFaceDetectionChange' = onFaceChange
          /\ isRunning' = TRUE
          /\ isCalibrating' = TRUE
          /\ calibrationFrames' = <<>>
          /\ LET id == Fresh(timers)
             IN  /\ detectionInterval' = id
                 /\ timers' = timers \cup {id}
          /\ UNCHANGED <<modelsLoaded, videoElement, stream, frames,
                         currentAnswerFrames, snapshots, calibrationBaseline,
                         live, videoPaused, acquiring, metaPending, now,
                         inflight, history>>

startDetection(onUpdate, onFaceChange) ==
  /\ last' = Other
  /\ IF ~modelsLoaded \/ videoElement = Null \/ isRunning
     THEN UNCHANGED <<engine, environment, now, inflight, history>>
     ELSE /\ onEmotionUpdate' = onUpdate
          /\ onFaceDetectionChange' = onFaceChange
          /\ isRunning' = TRUE
          /\ isCalibrating' = TRUE
          /\ calibrationFrames' = <<>>
          /\ LET id == Fresh(timers)
             IN  /\ detectionInterval' = id
                 /\ timers' = timers \cup {id}
          /\ UNCHANGED <<modelsLoaded, videoElement, stream, frames,
                         currentAnswerFrames, snapshots, calibrationBaseline,
                         live, videoPaused, acquiring, metaPending, now,
                         inflight, history>>

\* the assignments of stopDetection (also the first half of destroy)
StopDetectionEffect ==
  /\ timers' = IF detectionInterval # NullId THEN timers \ {detectionInterval}
               ELSE timers
  /\ detectionInterval' = NullId
  /\ isRunning' = FALSE

\* a stopDetection that also drops the frame history
stopDetectionClearsLog(record) ==
  /\ StopDetectionEffect
  /\ frames' = <<>>
  /\ frameTick' = <<>>
  /\ cancelled' = IF record THEN cancelled \cup inflight ELSE cancelled
  /\ last' = Other
  /\ UNCHANGED <<modelsLoaded, videoElement, stream,
                 currentAnswerFrames, snapshots, calibrationBaseline,
                 calibrationFrames, isCalibrating, onEmotionUpdate,
                 onFaceDetectionChange, live, videoPaused, acquiring,
                 metaPending, now, inflight, destroyed>>

\* record: whether the history variables are kept in this specification
stopDetection(record) ==
  /\ StopDetectionEffect
  /\ cancelled' = IF record THEN cancelled \cup inflight ELSE cancelled
  /\ last' = Other
  /\ UNCHANGED <<modelsLoaded, videoElement, stream, frames,
                 currentAnswerFrames, snapshots, calibrationBaseline,
                 calibrationFrames, isCalibrating, onEmotionUpdate,
                 onFaceDetectionChange, live, videoPaused, acquiring,
                 metaPending, now, inflight, frameTick, destroyed>>

\* ------------------------------------------------------------------------
\* detectFrame: an interval firing runs it up to the await of the
\* classifier call; the rest runs when that call settles
\* ------------------------------------------------------------------------
detectFrame(maxTicks) ==
  /\ timers # {}
  /\ IF videoElement = Null \/ videoPaused
     THEN /\ last' = Other
          /\ UNCHANGED <<now, inflight>>
     ELSE /\ now < maxTicks
          /\ now' = now + 1
          /\ inflight' = inflight \cup {now + 1}
          /\ last' = Other
  /\ UNCHANGED <<engine, environment, history>>

\* The EmotionFrame literals.  Their timestamp (Date.now()) is read nowhere
\* in the engine and is left out.
DetectedFrame(detection) ==
  [emotions |-> detection.expressions, confidence |-> detection.score,
   faceDetected |-> TRUE]

NoFaceFrame ==
  [emotions |-> EMPTY_SCORES, confidence |-> RZero, faceDetected |-> FALSE]

\* this.cb?.(arg)
Invoke(name, cb, arg) ==
  IF cb = Null THEN <<>> ELSE <<[callback |-> name, arg |-> arg]>>

\* the classifier returned a detection with confidence >= MIN_CONFIDENCE
detectFrameValid(tick, detection) ==
  LET frame == DetectedFrame(detection)
      calFrames == Append(calibrationFrames, frame)
      completes == isCalibrating /\ Len(calFrames) >= CALIBRATION_FRAMES
      baseline ==
        IF completes
        THEN averageScores([i \in 1..Len(calFrames) |-> calFrames[i].emotions])
        ELSE calibrationBaseline
      snapshot == computeSmoothedSnapshot(Append(currentAnswerFrames, frame), baseline)
  IN  /\ frames' = Append(frames, frame)
      /\ currentAnswerFrames' = Append(currentAnswerFrames, frame)
      /\ calibrationFrames' = IF isCalibrating THEN calFrames ELSE calibrationFrames
      /\ calibrationBaseline' = baseline
      /\ isCalibrating' = (isCalibrating /\ ~completes)
      /\ last' = Did("detectFrameResumed", [tick |-> tick, outcome |-> detection],
                     Null,
                     Invoke("onEmotionUpdate", onEmotionUpdate, snapshot)
                       \o Invoke("onFaceDetectionChange", onFaceDetectionChange, TRUE))

\* a low-confidence branch that stores and reports the frame like a
\* confident one (the confidence gate around the two pushes left out)
detectFrameLowConfidenceAppends(tick, detection) ==
  LET frame == DetectedFrame(detection)
      snapshot == computeSmoothedSnapshot(Append(currentAnswerFrames, frame),
                                          calibrationBaseline)
  IN  /\ frames' = Append(frames, frame)
      /\ currentAnswerFrames' = Append(currentAnswerFrames, frame)
      /\ last' = Did("detectFrameResumed", [tick |-> tick, outcome |-> detection],
                     Null,
                     Invoke("onEmotionUpdate", onEmotionUpdate, snapshot)
                       \o Invoke("onFaceDetectionChange", onFaceDetectionChange, TRUE))
      /\ UNCHANGED <<calibrationFrames, calibrationBaseline, isCalibrating>>

\* the classifier returned a detection with confidence < MIN_CONFIDENCE
detectFrameLowConfidence(tick, detection) ==
  /\ last' = Did("detectFrameResumed", [tick |-> tick, outcome |-> detection],
                 Null,
                 Invoke("onFaceDetectionChange", onFaceDetectionChange, TRUE))
  /\ UNCHANGED <<frames, currentAnswerFrames, calibrationFrames,
                 calibrationBaseline, isCalibrating>>

\* the classifier returned nothing: no face
detectFrameNoFace(tick) ==
  /\ frames' = Append(frames, NoFaceFrame)
  /\ currentAnswerFrames' = Append(currentAnswerFrames, NoFaceFrame)
  /\ last' = Did("detectFrameResumed", [tick |-> tick, outcome |-> NoFace],
                 Null,
                 Invoke("onFaceDetectionChange", onFaceDetectionChange, FALSE))
  /\ UNCHANGED <<calibrationFrames, calibrationBaseline, isCalibrating>>

\* a catch block that records the failed tick as a no-face frame
detectFrameCaughtAppends(tick) ==
  /\ frames' = Append(frames, NoFaceFrame)
  /\ currentAnswerFrames' = Append(currentAnswerFrames, NoFaceFrame)
  /\ last' = Did("detectFrameResumed", [tick |-> tick, outcome |-> Throws],
                 Null,
                 Invoke("onFaceDetectionChange", onFaceDetectionChange, FALSE))
  /\ UNCHANGED <<calibrationFrames, calibrationBaseline, isCalibrating>>

\* the classifier call threw: the empty catch block
detectFrameCaught(tick) ==
  /\ last' = Did("detectFrameResumed", [tick |-> tick, outcome |-> Throws],
                 Null, <<>>)
  /\ UNCHANGED <<frames, currentAnswerFrames, calibrationFrames,
                 calibrationBaseline, isCalibrating>>

\* record: whether the history variables are kept in this specification
detectFrameResumed(tick, outcome, record) ==
  /\ tick \in inflight
  /\ inflight' = inflight \ {tick}
  /\ cancelled' = cancelled \ {tick}
  /\ CASE outcome.kind = "throw" -> detectFrameCaught(tick)
       [] outcome.kind = "null" -> detectFrameNoFace(tick)
       [] outcome.kind = "detection" /\ RGe(outcome.score, MIN_CONFIDENCE) ->
            detectFrameValid(tick, outcome)
       [] OTHER -> detectFrameLowConfidence(tick, outcome)
  /\ frameTick' = IF record /\ Len(frames') > Len(frames)
                  THEN Append(frameTick, tick) ELSE frameTick
  /\ UNCHANGED <<modelsLoaded, videoElement, stream, detectionInterval,
                 isRunning, snapshots, onEmotionUpdate, onFaceDetectionChange,
                 environment, now, destroyed>>

\* ------------------------------------------------------------------------
\* Answer boundary and read accessors
\* ------------------------------------------------------------------------
\* a captureAnswerSnapshot that resets the session log instead of the
\* per-answer buffer
captureAnswerSnapshotResetsLog ==
  LET snapshot == computeSmoothedSnapshot(currentAnswerFrames, calibrationBaseline)
  IN  /\ snapshots' = Append(snapshots, snapshot)
      /\ frames' = <<>>
      /\ frameTick' = <<>>
      /\ last' = Did("captureAnswerSnapshot", Null, snapshot, <<>>)
      /\ UNCHANGED <<modelsLoaded, videoElement, stream, detectionInterval,
                     isRunning, currentAnswerFrames, calibrationBaseline,
                     calibrationFrames, isCalibrating, onEmotionUpdate,
                     onFaceDetectionChange, environment, now, inflight,
                     cancelled, destroyed>>

captureAnswerSnapshot ==
  LET snapshot == computeSmoothedSnapshot(currentAnswerFrames, calibrationBaseline)
  IN  /\ snapshots' = Append(snapshots, snapshot)
      /\ currentAnswerFrames' = <<>>
      /\ last' = Did("captureAnswerSnapshot", Null, snapshot, <<>>)
      /\ UNCHANGED <<modelsLoaded, videoElement, stream, detectionInterval,
                     isRunning, frames, calibrationBaseline, calibrationFrames,
                     isCalibrating, onEmotionUpdate, onFaceDetectionChange,
                     environment, now, inflight, history>>

getTimeline ==
  [frames |-> frames, snapshots |-> snapshots,
   sessionAverage |-> computeSmoothedSnapshot(frames, calibrationBaseline),
   calibrationBaseline |-> calibrationBaseline]

\* a session summary computed from the per-answer buffer
getSessionSummaryOfAnswer ==
  computeSmoothedSnapshot(currentAnswerFrames, calibrationBaseline)

getSessionSummary == computeSmoothedSnapshot(frames, calibrationBaseline)

getCurrentSnapshot == computeSmoothedSnapshot(currentAnswerFrames, calibrationBaseline)

isActive == isRunning

getFrameCount == Len(frames)

\* an accessor that consumes the per-answer buffer it reports on
ReadConsumesBuffer ==
  /\ currentAnswerFrames' = <<>>
  /\ last' = Other
  /\ UNCHANGED <<modelsLoaded, videoElement, stream, detectionInterval,
                 isRunning, frames, snapshots, calibrationBaseline,
                 calibrationFrames, isCalibrating, onEmotionUpdate,
                 onFaceDetectionChange, environment, now, inflight, history>>

\* a call of one of the five accessors above: each evaluates its expression
\* and assigns nothing
Read ==
  /\ last' = Other
  /\ UNCHANGED <<engine, environment, now, inflight, history>>

\* ------------------------------------------------------------------------
\* destroy
\* ------------------------------------------------------------------------
\* a destroy that forgets the per-answer buffer
destroyKeepsBuffer(record) ==
  /\ StopDetectionEffect
  /\ StopWebcamEffect
  /\ frames' = <<>>
  /\ snapshots' = <<>>
  /\ calibrationBaseline' = NullScores
  /\ calibrationFrames' = <<>>
  /\ frameTick' = <<>>
  /\ cancelled' = IF record THEN cancelled \cup inflight ELSE cancelled
  /\ destroyed' = (destroyed \/ record)
  /\ last' = Other
  /\ UNCHANGED <<modelsLoaded, currentAnswerFrames, isCalibrating,
                 onEmotionUpdate, onFaceDetectionChange, acquiring, now,
                 inflight>>

destroy(record) ==
  /\ StopDetectionEffect
  /\ StopWebcamEffect
  /\ frames' = <<>>
  /\ currentAnswerFrames' = <<>>
  /\ snapshots' = <<>>
  /\ calibrationBaseline' = NullScores
  /\ calibrationFrames' = <<>>
  /\ frameTick' = <<>>
  /\ cancelled' = IF record THEN cancelled \cup inflight ELSE cancelled
  /\ destroyed' = (destroyed \/ record)
  /\ last' = Other
  /\ UNCHANGED <<modelsLoaded, isCalibrating, onEmotionUpdate,
                 onFaceDetectionChange, acquiring, now, inflight>>

\* ------------------------------------------------------------------------
\* Specifications
\* ------------------------------------------------------------------------
\* The engine driven by any caller.  A second startWebcam is not begun while
\* one awaits getUserMedia (the page awaits each call).
Step(record) ==
  \/ UNCHANGED page /\ \E ok \in BOOLEAN : loadModels(ok)
  \/ UNCHANGED page /\ startWebcam
  \/ UNCHANGED page /\ startWebcamAcquired
  \/ UNCHANGED page /\ startWebcamRejected
  \/ UNCHANGED page /\ startWebcamLoaded
  \/ UNCHANGED page /\ stopWebcam
  \/ UNCHANGED page /\ \E cbs \in CallbackArgs : startDetection(cbs[1], cbs[2])
  \/ UNCHANGED page /\ stopDetection(record)
  \/ UNCHANGED page /\ detectFrame(MaxTicks)
  \/ UNCHANGED page /\ \E tick \in inflight, outcome \in Outcomes :
       detectFrameResumed(tick, outcome, record)
  \/ UNCHANGED page /\ Len(snapshots) < MaxSnapshots /\ captureAnswerSnapshot
  \/ UNCHANGED page /\ Read
  \/ UNCHANGED page /\ destroy(record)

Next == Step(FALSE)

Spec == Init /\ [][Next]_vars

\* the same engine, with the history of stopDetection and destroy kept
NextHist == Step(TRUE)

SpecHist == Init /\ [][NextHist]_vars

\* how often the expression changes from one logged frame to the next
SceneChanges(fs) ==
  Cardinality({i \in 1..(Len(fs) - 1) : fs[i].emotions # fs[i + 1].emotions})

\* A long session: the webcam is started once, every classifier call settles
\* with a confident detection before the next tick, the candidate's
\* expression changes at most MaxSceneChanges times, and detection is stopped
\* and started again at will.
NextLong ==
  \/ UNCHANGED page /\ loadModels(TRUE)
  \/ UNCHANGED page /\ videoElement = Null /\ startWebcam
  \/ UNCHANGED page /\ startWebcamAcquired
  \/ UNCHANGED page /\ startWebcamLoaded
  \/ UNCHANGED page /\ \E cbs \in CallbackArgs : startDetection(cbs[1], cbs[2])
  \/ UNCHANGED page /\ stopDetection(FALSE)
  \/ UNCHANGED page /\ inflight = {} /\ detectFrame(MaxLongTicks)
  \/ UNCHANGED page /\ \E tick \in inflight, outcome \in LongOutcomes :
       /\ detectFrameResumed(tick, outcome, FALSE)
       /\ SceneChanges(frames') <= MaxSceneChanges

SpecLong == Init /\ [][NextLong]_vars

\* One interview session: detection is started and never stopped, every
\* classifier call settles with a confident detection before the next tick,
\* and the page captures a snapshot at each answer boundary.
Session(maxTicks) ==
  \/ UNCHANGED page /\ loadModels(TRUE)
  \/ UNCHANGED page /\ videoElement = Null /\ startWebcam
  \/ UNCHANGED page /\ startWebcamAcquired
  \/ UNCHANGED page /\ startWebcamLoaded
  \/ UNCHANGED page /\ \E cbs \in CallbackArgs : startDetection(cbs[1], cbs[2])
  \/ UNCHANGED page /\ inflight = {} /\ detectFrame(maxTicks)
  \/ UNCHANGED page /\ \E tick \in inflight, outcome \in LongOutcomes :
       /\ detectFrameResumed(tick, outcome, FALSE)
       /\ SceneChanges(frames') <= MaxSceneChanges
  \/ UNCHANGED page /\ Len(snapshots) < MaxSnapshots /\ captureAnswerSnapshot

NextSession == Session(MaxLongTicks)

SpecSession == Init /\ [][NextSession]_vars

\* the opening of such a session, before calibration completes
NextOpening == Session(MaxOpeningTicks)

SpecOpening == Init /\ [][NextOpening]_vars

\* ------------------------------------------------------------------------
\* The interview page (the engine's only caller)
\* ------------------------------------------------------------------------
EngineIdle == UNCHANGED <<engine, environment, now, inflight, history>>

\* setPhase(p): a state update of an unmounted component is dropped
SetPhase(pg, p) == IF pg.mounted THEN p ELSE pg.phase

\* webcamRef.current: the <video> element exists only in the interview view
WebcamRef ==
  IF page.mounted /\ page.phase \in {"active", "processing"} THEN VideoEl
  ELSE Null

\* an await of handleStartInterview's engine initialisation has settled and
\* its continuation is the next thing to run
Resuming == page.init \in {"loaded", "camOk"}

\* the Start button of the "ready" view
handleStartInterview ==
  /\ page.mounted
  /\ page.phase = "ready"
  /\ page' = [page EXCEPT !.phase = "active", !.init = "loadModels",
                          !.start = "startInterview"]
  /\ last' = Other
  /\ EngineIdle

\* await emotionEngine.loadModels() settles
handleStartInterviewModels(ok) ==
  /\ page.init = "loadModels"
  /\ loadModels(ok)
  /\ page' = [page EXCEPT !.init = IF modelsLoaded' THEN "loaded" ELSE "done"]

\* if (modelsOk && webcamRef.current) ... startWebcam(webcamRef.current)
handleStartInterviewWebcam ==
  /\ page.init = "loaded"
  /\ IF WebcamRef # Null
     THEN /\ startWebcam
          /\ page' = [page EXCEPT !.init = "startWebcam"]
     ELSE /\ page' = [page EXCEPT !.init = "done"]
          /\ last' = Other
          /\ EngineIdle

\* startWebcam resolves false: camOk is false and the initialisation ends
handleStartInterviewCamFailed ==
  /\ page.init = "startWebcam"
  /\ startWebcamRejected
  /\ page' = [page EXCEPT !.init = "done"]

\* startWebcam resolves true
handleStartInterviewCamOk ==
  /\ page.init = "startWebcam"
  /\ startWebcamLoaded
  /\ page' = [page EXCEPT !.init = "camOk"]

\* if (camOk) { await startDetection(...); setEmotionReady(true) }
handleStartInterviewDetect ==
  /\ page.init = "camOk"
  /\ \E cbs \in CallbackArgs : startDetection(cbs[1], cbs[2])
  /\ page' = [page EXCEPT !.init = "done",
                          !.emotionReady = page.mounted,
                          !.startDetectionCalls = @ + 1]

\* await startInterview(...) settles
handleStartInterviewSession(ok) ==
  /\ page.start = "startInterview"
  /\ page' = IF ok THEN [page EXCEPT !.start = "done", !.sessionId = TRUE]
             ELSE [page EXCEPT !.start = "done",
                               !.phase = SetPhase(page, "error")]
  /\ last' = Other
  /\ EngineIdle

\* emotionEngine.stopDetection(); emotionEngine.stopWebcam()
ShutDownEngine ==
  /\ StopDetectionEffect
  /\ StopWebcamEffect
  /\ UNCHANGED <<modelsLoaded, frames, currentAnswerFrames, snapshots,
                 calibrationBaseline, calibrationFrames, isCalibrating,
                 onEmotionUpdate, onFaceDetectionChange, acquiring, now,
                 inflight, history>>

\* a handleEndInterview that destroys the engine it shuts down
handleEndInterviewDestroys(pg) ==
  /\ last' = Other
  /\ IF ~pg.sessionId
     THEN /\ page' = pg
          /\ EngineIdle
     ELSE /\ destroy(FALSE)
          /\ page' = [pg EXCEPT !.phase = SetPhase(pg, "evaluating"),
                                !.destroyCalls = @ + 1]

\* handleEndInterview, run with the page as its caller has left it
handleEndInterview(pg) ==
  /\ last' = Other
  /\ IF ~pg.sessionId
     THEN /\ page' = pg
          /\ EngineIdle
     ELSE /\ ShutDownEngine
          /\ page' = [pg EXCEPT !.phase = SetPhase(pg, "evaluating")]

\* the End button of the interview view
handleManualEnd ==
  /\ page.mounted
  /\ page.phase \in {"active", "processing"}
  /\ handleEndInterview(page)

\* the evaluation stream reports completion, an error, or breaks
evaluationStreamEnds(ok) ==
  /\ page.mounted
  /\ page.phase = "evaluating"
  /\ page' = [page EXCEPT !.phase = IF ok THEN "complete" ELSE "error"]
  /\ last' = Other
  /\ EngineIdle

\* a submitVoiceAnswer that does not look at isSubmittingRef
submitVoiceAnswerUnguarded ==
  /\ page.mounted
  /\ page.phase \in {"active", "processing"}
  /\ IF ~page.sessionId
     THEN /\ last' = Did("submitVoiceAnswer", Null, Null, <<>>)
          /\ UNCHANGED page
          /\ EngineIdle
     ELSE /\ page' = [page EXCEPT !.isSubmitting = TRUE,
                                  !.phase = "processing",
                                  !.requests = @ + 1,
                                  !.capturesHere =
                                    IF page.emotionReady THEN @ + 1 ELSE @]
          /\ IF page.emotionReady THEN captureAnswerSnapshot
             ELSE /\ last' = Did("submitVoiceAnswer", Null, Null, <<>>)
                  /\ EngineIdle

\* submitVoiceAnswer up to its await of submitAnswer, called by the silence
\* timer or the manual submit of the interview view
submitVoiceAnswer ==
  /\ page.mounted
  /\ page.phase \in {"active", "processing"}
  /\ IF ~page.sessionId \/ page.isSubmitting
     THEN /\ last' = Did("submitVoiceAnswer", Null, Null, <<>>)
          /\ UNCHANGED page
          /\ EngineIdle
     ELSE /\ page' = [page EXCEPT !.isSubmitting = TRUE,
                                  !.phase = "processing",
                                  !.requests = @ + 1,
                                  !.capturesHere =
                                    IF page.emotionReady THEN @ + 1 ELSE @]
          /\ IF page.emotionReady THEN captureAnswerSnapshot
             ELSE /\ last' = Did("submitVoiceAnswer", Null, Null, <<>>)
                  /\ EngineIdle

\* STEP 2 of submitVoiceAnswer: the next question, or the end of the
\* interview
submitVoiceAnswerNext(pg, hasNext) ==
  IF hasNext
  THEN /\ page' = [pg EXCEPT !.question = @ + 1, !.capturesHere = 0,
                             !.phase = SetPhase(pg, "active"),
                             !.isSubmitting = FALSE]
       /\ last' = Other
       /\ EngineIdle
  ELSE handleEndInterview([pg EXCEPT !.isSubmitting = FALSE])

\* await submitAnswer(...) resolves: the time has expired, or the response
\* carries a reply to speak, a next question, or neither
submitVoiceAnswerResolved(res) ==
  /\ page.requests > 0
  /\ res = "next_question" => page.question < MaxQuestions
  /\ LET pg == [page EXCEPT !.requests = @ - 1]
     IN  CASE res = "time_expired" ->
                handleEndInterview([pg EXCEPT !.isSubmitting = FALSE])
           [] res = "reply" ->
                /\ page' = [pg EXCEPT !.replies = @ + 1,
                                      !.phase = SetPhase(pg, "active")]
                /\ last' = Other
                /\ EngineIdle
           [] res = "next_question" -> submitVoiceAnswerNext(pg, TRUE)
           [] OTHER -> submitVoiceAnswerNext(pg, FALSE)

\* await speak(reply) resolves and STEP 2 follows
submitVoiceAnswerSpoken(hasNext) ==
  /\ page.replies > 0
  /\ hasNext => page.question < MaxQuestions
  /\ submitVoiceAnswerNext([page EXCEPT !.replies = @ - 1], hasNext)

\* await submitAnswer(...) rejects: the catch block
submitVoiceAnswerRejected ==
  /\ page.requests > 0
  /\ page.retries < MaxRetries
  /\ page' = [page EXCEPT !.requests = @ - 1, !.retries = @ + 1,
                          !.phase = SetPhase(page, "active"),
                          !.isSubmitting = FALSE]
  /\ last' = Other
  /\ EngineIdle

\* the cleanup of the page's mount effect
unmount ==
  /\ page.mounted
  /\ destroy(FALSE)
  /\ page' = [page EXCEPT !.mounted = FALSE, !.destroyCalls = @ + 1,
                          !.initAtDestroy = page.init]

\* The page and its engine.  A continuation of the engine initialisation runs
\* before anything else; classifier calls settle before the next tick.
NextPage ==
  \/ handleStartInterview
  \/ \E ok \in BOOLEAN : handleStartInterviewModels(ok)
  \/ handleStartInterviewWebcam
  \/ handleStartInterviewCamFailed
  \/ handleStartInterviewCamOk
  \/ handleStartInterviewDetect
  \/ ~Resuming /\ UNCHANGED page /\ startWebcamAcquired
  \/ ~Resuming /\ \E ok \in BOOLEAN : handleStartInterviewSession(ok)
  \/ ~Resuming /\ UNCHANGED page /\ inflight = {} /\ detectFrame(MaxPageTicks)
  \/ ~Resuming /\ UNCHANGED page /\ \E tick \in inflight :
       detectFrameResumed(tick, DetMixed, FALSE)
  \/ ~Resuming /\ submitVoiceAnswer
  \/ ~Resuming /\ \E res \in {"time_expired", "reply", "next_question", "end"} :
       submitVoiceAnswerResolved(res)
  \/ ~Resuming /\ \E hasNext \in BOOLEAN : submitVoiceAnswerSpoken(hasNext)
  \/ ~Resuming /\ submitVoiceAnswerRejected
  \/ ~Resuming /\ handleManualEnd
  \/ ~Resuming /\ \E ok \in BOOLEAN : evaluationStreamEnds(ok)
  \/ ~Resuming /\ unmount

SpecPage == Init /\ [][NextPage]_vars

\* ------------------------------------------------------------------------
\* computeSmoothedSnapshot as a function of its argument
\* ------------------------------------------------------------------------
\* frame lists handed to computeSmoothedSnapshot(frames: EmotionFrame[])
PureFrames ==
  {NoFaceFrame, DetectedFrame(DetLow), DetectedFrame(DetMixed),
   DetectedFrame(DetBig), DetectedFrame(DetZero)}
WindowFrames == {NoFaceFrame, DetectedFrame(DetMixed), DetectedFrame(DetHappy)}

\* the faces a calibration phase may have seen CALIBRATION_FRAMES times
CalibrationKinds == {DetNeutral, DetHappy}

\* The engine while detecting, either just started (no baseline) or after a
\* calibration phase of CALIBRATION_FRAMES frames of one kind, about to
\* evaluate computeSmoothedSnapshot on a frame list of at most maxLen frames.
PureInit(kinds, maxLen, cals) ==
  \E cal \in {NoFace} \cup cals, n \in 0..maxLen :
    \E input \in [1..n -> kinds] :
      LET prefix == IF cal.kind = "null" THEN <<>>
                    ELSE [i \in 1..CALIBRATION_FRAMES |-> DetectedFrame(cal)]
      IN  /\ modelsLoaded = TRUE
          /\ videoElement = VideoEl
          /\ stream = 1
          /\ detectionInterval = 1
          /\ isRunning = TRUE
          /\ frames = prefix
          /\ currentAnswerFrames = prefix
          /\ snapshots = <<>>
          /\ calibrationBaseline =
               IF prefix = <<>> THEN NullScores
               ELSE averageScores([i \in 1..Len(prefix) |-> prefix[i].emotions])
          /\ calibrationFrames = prefix
          /\ isCalibrating = (prefix = <<>>)
          /\ onEmotionUpdate = "setEmotionSnapshot"
          /\ onFaceDetectionChange = "setFaceDetected"
          /\ timers = {1}
          /\ live = {1}
          /\ videoPaused = FALSE
          /\ acquiring = 0
          /\ metaPending = FALSE
          /\ now = Len(prefix)
          /\ inflight = {}
          /\ frameTick = <<>>
          /\ cancelled = {}
          /\ destroyed = FALSE
          /\ last = Did("input", input, Null, <<>>)
          /\ page = PageInit

\* the evaluation of this.computeSmoothedSnapshot(input)
computeSmoothedSnapshotCall ==
  /\ last.op = "input"
  /\ last' = Did("computeSmoothedSnapshot", last.arg,
                 computeSmoothedSnapshot(last.arg, calibrationBaseline), <<>>)
  /\ UNCHANGED <<engine, environment, now, inflight, history, page>>

NextPure == computeSmoothedSnapshotCall

\* short frame lists of every kind of frame, under every baseline
InitPure == PureInit(PureFrames, MaxPureLen, CalibrationKinds)

SpecPure == InitPure /\ [][NextPure]_vars

\* frame lists longer than the smoothing window
InitWindow == PureInit(WindowFrames, MaxWindowLen, {DetNeutral})

SpecWindow == InitWindow /\ [][NextPure]_vars

\* ------------------------------------------------------------------------
\* Claims
\* ------------------------------------------------------------------------
\* the step in which the classifier call of tick t settles
Settles(t) == t \in inflight /\ t \notin inflight'

\* C1: while the engine is detecting, at most one detectFrame invocation is
\* in flight: a tick that comes due while the previous classifier call has
\* not returned starts no second call.
C1_TicksSerialized == isRunning => Cardinality(inflight) <= 1

\* C2: the result of a classifier call that was in flight when
\* stopDetection() or destroy() was called is discarded when it arrives: it
\* appends no frame to the session log or the per-answer buffer, does not
\* advance calibration and invokes no callback.
C2_CancelledResultDiscarded ==
  [][\A t \in cancelled :
       Settles(t) =>
         /\ frames' = frames
         /\ currentAnswerFrames' = currentAnswerFrames
         /\ calibrationFrames' = calibrationFrames
         /\ calibrationBaseline' = calibrationBaseline
         /\ isCalibrating' = isCalibrating
         /\ last'.calls = <<>>]_vars

\* C3: destroy() is irreversible: after it no sequence of public calls makes
\* the scheduler run again or a frame be appended again.
C3_DestroyIrreversible ==
  destroyed => (timers = {} /\ ~isRunning /\ frames = <<>>)

\* the valid frames of a frame list, as computeSmoothedSnapshot selects them
ValidFrames(fs) == SelectSeq(fs, IsValidFrame)

\* C4: the calibration baseline is set at most once per session: it goes
\* from null to a value exactly when the CALIBRATION_FRAMES-th valid frame
\* is ingested, and afterwards, across ticks and stopDetection/startDetection
\* calls, it never changes and calibration is never re-entered.
C4_BaselineSetOnce ==
  [][/\ (calibrationBaseline = NullScores /\ calibrationBaseline' # NullScores)
          <=> /\ Len(ValidFrames(frames)) = CALIBRATION_FRAMES - 1
              /\ Len(ValidFrames(frames')) = CALIBRATION_FRAMES
     /\ calibrationBaseline # NullScores =>
          /\ calibrationBaseline' = calibrationBaseline
          /\ ~isCalibrating']_vars

\* C5: a baseline that is set equals the per-category mean of the
\* EmotionScores of the first CALIBRATION_FRAMES valid frames of the
\* session log.
C5_BaselineIsMeanOfFirstValid ==
  calibrationBaseline # NullScores =>
    LET valid == ValidFrames(frames)
    IN  /\ Len(valid) >= CALIBRATION_FRAMES
        /\ calibrationBaseline =
             averageScores([i \in 1..CALIBRATION_FRAMES |-> valid[i].emotions])

\* the step in which a classifier call settles with an outcome of this kind
Resumed(kind) ==
  /\ \E t \in inflight : Settles(t)
  /\ last'.op = "detectFrameResumed"
  /\ last'.arg.outcome.kind = kind

StoredAndReported(outcome) ==
  LET frame == DetectedFrame(outcome)
  IN  /\ frames' = Append(frames, frame)
      /\ currentAnswerFrames' = Append(currentAnswerFrames, frame)
      /\ last'.calls =
           Invoke("onEmotionUpdate", onEmotionUpdate,
                  computeSmoothedSnapshot(currentAnswerFrames', calibrationBaseline'))
             \o Invoke("onFaceDetectionChange", onFaceDetectionChange, TRUE)

\* classifier calls that have settled
CompletedTicks == now - Cardinality(inflight)

\* C7 as stated: every tick on which the classifier returns a detection, at
\* any confidence, appends one frame to the session log and the per-answer
\* buffer and delivers the snapshot of the per-answer buffer through
\* onUpdate.
C7_EveryDetectionStored ==
  [][Resumed("detection") => StoredAndReported(last'.arg.outcome)]_vars

\* C7 as amended: a detection with confidence >= MIN_CONFIDENCE appends
\* exactly one frame to the session log and the per-answer buffer and
\* delivers the snapshot of the per-answer buffer through onUpdate; a
\* detection below MIN_CONFIDENCE appends nothing and only reports
\* onFaceChange(true); the session log never holds more frames than
\* classifier calls have completed.
C7_ConfidentDetectionStored ==
  /\ [][Resumed("detection") =>
          IF RGe(last'.arg.outcome.score, MIN_CONFIDENCE)
          THEN StoredAndReported(last'.arg.outcome)
          ELSE /\ frames' = frames
               /\ currentAnswerFrames' = currentAnswerFrames
               /\ last'.calls =
                    Invoke("onFaceDetectionChange", onFaceDetectionChange, TRUE)]_vars
  /\ [](Len(frames) <= CompletedTicks)

\* a confident detection has just been stored and reported through both
\* callbacks, after an earlier classifier call that stored nothing
C7_Witness ==
  /\ last.op = "detectFrameResumed"
  /\ last.arg.outcome.kind = "detection"
  /\ RGe(last.arg.outcome.score, MIN_CONFIDENCE)
  /\ Len(last.calls) = 2
  /\ last.calls[1].arg.frameCount = 1
  /\ Len(frames) = 1
  /\ CompletedTicks = 2

\* C8: captureAnswerSnapshot() returns the snapshot of the per-answer buffer
\* as it was before the call, appends exactly that snapshot to the snapshot
\* list, leaves the per-answer buffer empty and leaves the session log and
\* the calibration baseline unchanged.
C8_CaptureCutsBuffer ==
  [][last'.op = "captureAnswerSnapshot" =>
       LET snap == computeSmoothedSnapshot(currentAnswerFrames, calibrationBaseline)
       IN  /\ last'.ret = snap
           /\ snapshots' = Append(snapshots, snap)
           /\ currentAnswerFrames' = <<>>
           /\ frames' = frames
           /\ calibrationBaseline' = calibrationBaseline]_vars

\* a capture has just returned the snapshot of a buffer that held a valid
\* frame, and the session log still holds its frames
C8_Witness ==
  /\ last.op = "captureAnswerSnapshot"
  /\ last.ret.frameCount > 0
  /\ snapshots = <<last.ret>>
  /\ currentAnswerFrames = <<>>
  /\ frames # <<>>

\* s is an initial part of t
IsPrefix(s, t) == Len(s) <= Len(t) /\ SubSeq(t, 1, Len(s)) = s

\* C9: before destroy(), the session log only grows: across ticks,
\* captureAnswerSnapshot, stopDetection, startDetection and the accessors
\* every earlier log is a prefix of every later one.
C9_LogOnlyGrows ==
  [][destroy(FALSE) \/ IsPrefix(frames, frames')]_vars

\* the log has grown across a capture and detection was then stopped with
\* the whole history kept
C9_Witness ==
  /\ Len(frames) >= 2
  /\ snapshots # <<>>
  /\ Len(currentAnswerFrames) < Len(frames)
  /\ ~isRunning /\ timers = {}

\* a step in which some classifier call settles (frame ingestion)
Ingests == \E t \in inflight : Settles(t)

\* C11 as stated: apart from frame ingestion, captureAnswerSnapshot() is the
\* only public operation that changes the per-answer buffer.
C11_OnlyCaptureCutsBuffer ==
  [][currentAnswerFrames' # currentAnswerFrames =>
       (Ingests \/ last'.op = "captureAnswerSnapshot")]_vars

\* C11 as amended: apart from frame ingestion, captureAnswerSnapshot() and
\* destroy() are the only public operations that change the per-answer
\* buffer, and the five accessors change no engine state at all.
C11_OnlyCaptureAndDestroyCutBuffer ==
  [][/\ currentAnswerFrames' # currentAnswerFrames =>
          (Ingests \/ last'.op = "captureAnswerSnapshot" \/ destroy(FALSE))
     /\ Read => UNCHANGED engine]_vars

\* an accessor has been called on an engine that is detecting, with frames in
\* the log and in the per-answer buffer after an earlier capture, and all of
\* it was left in place
C11_Witness ==
  /\ last.op = "other"
  /\ isRunning
  /\ snapshots # <<>>
  /\ currentAnswerFrames # <<>>
  /\ Len(frames) > Len(currentAnswerFrames)

\* C12: once stopWebcam() or destroy() has run and startWebcam has not been
\* called again (the engine holds no video element), no acquired stream is
\* left unreleased.
C12_StreamsReleased == videoElement = Null => live = {}

\* C13: when startWebcam has failed (no call is pending and no stream was
\* acquired) the engine is as it was before the call: it holds no video
\* element, and a startDetection() does not make it detect.
C13_FailedWebcamLeavesNoTrace ==
  /\ [](acquiring = 0 /\ stream = NullId => videoElement = Null)
  /\ [][(acquiring = 0 /\ stream = NullId /\ ~isRunning) => ~isRunning']_vars

\* the Capturing state: models loaded and a webcam started
Capturing == modelsLoaded /\ videoElement # Null /\ stream # NullId

\* C14: the engine starts detecting only from Capturing; a startDetection()
\* when models or webcam are not ready, or while already detecting, changes
\* nothing: no second scheduler, no replaced callbacks, no calibration reset.
C14_StartOnlyFromCapturing ==
  [][/\ (~isRunning /\ isRunning') => Capturing
     /\ ((\E cbs \in CallbackArgs : startDetection(cbs[1], cbs[2]))
           /\ (isRunning \/ ~Capturing))
          => UNCHANGED <<engine, timers>>]_vars

\* C15: once destroy() has returned the engine is not running, holds no
\* capture stream, its session log, per-answer buffer, snapshot list and
\* calibration frames are empty and its baseline is null, in every later
\* state.
C15_DestroyedStaysEmpty ==
  destroyed =>
    /\ ~isRunning
    /\ stream = NullId
    /\ frames = <<>>
    /\ currentAnswerFrames = <<>>
    /\ snapshots = <<>>
    /\ calibrationFrames = <<>>
    /\ calibrationBaseline = NullScores

\* computeSmoothedSnapshot has been evaluated on the frame list last.arg
Computed == last.op = "computeSmoothedSnapshot"

\* C16: for a frame list with no valid frame (every frame has
\* faceDetected=false or confidence < MIN_CONFIDENCE, the empty list
\* included) computeSmoothedSnapshot returns dominant "unknown", all seven
\* scores 0, confidence 0, frameCount 0 and all composites 0, with or
\* without a baseline.
C16_NoValidFrameGivesZero ==
  (/\ Computed
   /\ \A i \in 1..Len(last.arg) :
        \/ ~last.arg[i].faceDetected
        \/ RLt(last.arg[i].confidence, MIN_CONFIDENCE))
    => /\ last.ret.dominant = "unknown"
       /\ \A i \in 1..7 : last.ret.scores[EmotionKeys[i]] = <<0, 1>>
       /\ last.ret.confidence = <<0, 1>>
       /\ last.ret.frameCount = 0
       /\ last.ret.engagement = 0
       /\ last.ret.stress = 0
       /\ last.ret.positivity = 0

\* with a baseline set, a list holding a low-confidence face and a no-face
\* frame and nothing valid has been evaluated
C16_Witness ==
  /\ Computed
  /\ calibrationBaseline # NullScores
  /\ \E i, j \in 1..Len(last.arg) :
       /\ last.arg[i].faceDetected
       /\ RLt(last.arg[i].confidence, MIN_CONFIDENCE)
       /\ ~last.arg[j].faceDetected
  /\ last.ret.frameCount = 0

InsertAt(s, i, e) == SubSeq(s, 1, i) \o <<e>> \o SubSeq(s, i + 1, Len(s))
ReplaceAt(s, i, e) == [s EXCEPT ![i] = e]

\* two snapshots agree on scores, confidence, dominant emotion and composites
SameSignal(a, b) ==
  /\ a.scores = b.scores
  /\ a.confidence = b.confidence
  /\ a.dominant = b.dominant
  /\ a.engagement = b.engagement
  /\ a.stress = b.stress
  /\ a.positivity = b.positivity

\* positions of the valid frames of fs with at least SMOOTHING_WINDOW valid
\* frames after them
OlderThanWindow(fs) ==
  {i \in 1..Len(fs) :
     /\ fs[i].faceDetected /\ RGe(fs[i].confidence, MIN_CONFIDENCE)
     /\ Cardinality({j \in (i + 1)..Len(fs) :
                       fs[j].faceDetected /\ RGe(fs[j].confidence, MIN_CONFIDENCE)})
          >= SMOOTHING_WINDOW}

\* C17: scores, confidence, dominant emotion and composites depend only on
\* the last SMOOTHING_WINDOW valid frames: inserting a faceDetected=false
\* frame at any position (hence any number of them), or replacing a valid
\* frame older than the last SMOOTHING_WINDOW valid ones by another valid
\* frame, leaves them unchanged.
C17_WindowOfLastValid ==
  Computed =>
    /\ \A i \in 0..Len(last.arg) :
         SameSignal(last.ret,
                    computeSmoothedSnapshot(InsertAt(last.arg, i, NoFaceFrame),
                                            calibrationBaseline))
    /\ \A i \in OlderThanWindow(last.arg) :
         \A g \in {DetectedFrame(DetMixed), DetectedFrame(DetHappy),
                   DetectedFrame(DetBig)} :
           SameSignal(last.ret,
                      computeSmoothedSnapshot(ReplaceAt(last.arg, i, g),
                                              calibrationBaseline))

\* a list with more valid frames than the window holds, of two kinds, with a
\* no-face frame between valid ones, has been evaluated
C17_Witness ==
  /\ Computed
  /\ OlderThanWindow(last.arg) # {}
  /\ \E i, j, k \in 1..Len(last.arg) :
       /\ i < j /\ j < k
       /\ last.arg[i].faceDetected
       /\ ~last.arg[j].faceDetected
       /\ last.arg[k].faceDetected
       /\ last.arg[i] # last.arg[k]
  /\ last.ret.frameCount > SMOOTHING_WINDOW

\* C18: engagement, stress and positivity of every snapshot are integers in
\* 0..100, whatever the magnitude of the input weights and with or without
\* a baseline.
C18_CompositesInRange ==
  Computed =>
    /\ last.ret.engagement \in 0..100
    /\ last.ret.stress \in 0..100
    /\ last.ret.positivity \in 0..100

\* the window average of a frame list, and its weights shifted by the
\* baseline and clamped at 0 as the calibration step prescribes
WindowAverage(fs) ==
  LET valid == ValidFrames(fs)
      from == IF Len(valid) > SMOOTHING_WINDOW
              THEN Len(valid) - SMOOTHING_WINDOW + 1 ELSE 1
  IN  averageScores([i \in 1..(Len(valid) - from + 1) |-> valid[from + i - 1].emotions])

ShiftedTotal(avg, baseline) ==
  LET n == RSub(avg.neutral, RMul(baseline.neutral, Rat(3, 10)))
      h == RAdd(avg.happy, RMul(baseline.neutral, Rat(5, 100)))
  IN  RAdd(RAdd(RAdd(RAdd(RAdd(RAdd(RMax(RZero, n), RMax(RZero, h)),
        RMax(RZero, avg.sad)), RMax(RZero, avg.angry)), RMax(RZero, avg.fearful)),
        RMax(RZero, avg.disgusted)), RMax(RZero, avg.surprised))

ScoreSum(scores) ==
  RAdd(RAdd(RAdd(RAdd(RAdd(RAdd(scores.neutral, scores.happy), scores.sad),
    scores.angry), scores.fearful), scores.disgusted), scores.surprised)

AllZero(scores) == \A i \in 1..7 : scores[EmotionKeys[i]] = <<0, 1>>

\* C19: with a baseline, the scores of a snapshot computed from at least one
\* valid frame are all non-negative and either sum to 1 or are all zero, and
\* they are all zero exactly when the clamped, shifted weights sum to 0.
C19_CalibratedScoresNormalized ==
  (Computed /\ calibrationBaseline # NullScores /\ ValidFrames(last.arg) # <<>>)
    => /\ \A i \in 1..7 : RGe(last.ret.scores[EmotionKeys[i]], <<0, 1>>)
       /\ ScoreSum(last.ret.scores) = <<1, 1>> \/ AllZero(last.ret.scores)
       /\ AllZero(last.ret.scores)
            <=> ShiftedTotal(WindowAverage(last.arg), calibrationBaseline) = <<0, 1>>

\* with a neutral baseline, a window whose weights sum to more than 1 has
\* been shifted and renormalized to sum 1
C19_Witness ==
  /\ Computed
  /\ calibrationBaseline # NullScores
  /\ RGt(calibrationBaseline.neutral, <<0, 1>>)
  /\ RGt(ScoreSum(WindowAverage(last.arg)), <<1, 1>>)
  /\ ScoreSum(last.ret.scores) = <<1, 1>>
  /\ last.ret.scores # WindowAverage(last.arg)

\* the scenario of C20: ten calibration frames {neutral: 1.0} and then one
\* frame {happy: 0.5, neutral: 0.5} at confidence 0.9 have been ingested
TenNeutralThenMixed ==
  /\ Len(frames) = CALIBRATION_FRAMES + 1
  /\ \A i \in 1..CALIBRATION_FRAMES : frames[i] = DetectedFrame(DetNeutral)
  /\ frames[CALIBRATION_FRAMES + 1] = DetectedFrame(DetMixed)
  /\ inflight = {}

\* what C20 expects of the current snapshot, and of the snapshot delivered
\* through onUpdate when the last step was that tick
HappyDominates ==
  /\ calibrationBaseline # NullScores
  /\ calibrationBaseline.neutral = <<1, 1>>
  /\ getCurrentSnapshot.dominant = "happy"
  /\ RGt(getCurrentSnapshot.scores.happy, getCurrentSnapshot.scores.neutral)
  /\ last.op = "detectFrameResumed" =>
       /\ last.calls # <<>>
       /\ last.calls[1].callback = "onEmotionUpdate"
       /\ last.calls[1].arg = getCurrentSnapshot

\* C20 as stated: after ten calibration frames {neutral: 1.0} and one frame
\* {happy: 0.5, neutral: 0.5} the baseline has neutral 1.0 and the current
\* snapshot has dominant "happy", calibrated happy above calibrated neutral.
C20_ScenarioHappy == TenNeutralThenMixed => HappyDominates

\* C20 as amended: that holds when captureAnswerSnapshot() was called
\* between the calibration frames and the last frame, so that the
\* per-answer buffer holds the last frame only; without a capture the
\* window still holds four calibration frames, the baseline has neutral 1.0
\* and the dominant emotion is "neutral".
C20_ScenarioHappyAfterCapture ==
  TenNeutralThenMixed =>
    /\ currentAnswerFrames = <<DetectedFrame(DetMixed)>> => HappyDominates
    /\ currentAnswerFrames = frames =>
         /\ calibrationBaseline # NullScores
         /\ calibrationBaseline.neutral = <<1, 1>>
         /\ getCurrentSnapshot.dominant = "neutral"
         /\ getCurrentSnapshot.scores.neutral = <<4, 5>>
         /\ getCurrentSnapshot.scores.happy = <<1, 5>>

\* the eleventh tick has just delivered its snapshot, after a capture that
\* followed the ten calibration frames
C20_Witness ==
  /\ TenNeutralThenMixed
  /\ currentAnswerFrames = <<DetectedFrame(DetMixed)>>
  /\ snapshots # <<>>
  /\ last.op = "detectFrameResumed"
  /\ getCurrentSnapshot.scores.happy = <<11, 15>>
  /\ getCurrentSnapshot.scores.neutral = <<4, 15>>

\* C26: getSessionSummary() and getTimeline().sessionAverage are always the
\* snapshot of the entire session log: they count every valid frame of the
\* log, their scores are those of its last SMOOTHING_WINDOW valid frames
\* whatever has been captured, and captureAnswerSnapshot() does not change
\* them (the summary of the log after a capture is the summary before it).
C26_SummaryOfWholeLog ==
  /\ [](LET summary == getSessionSummary
        IN  /\ getTimeline.sessionAverage = summary
            /\ summary.frameCount = Len(ValidFrames(frames))
            /\ ValidFrames(frames) # <<>> =>
                 summary.scores =
                   IF calibrationBaseline = NullScores THEN WindowAverage(frames)
                   ELSE applyCalibration(WindowAverage(frames),
                                         calibrationBaseline))
  /\ [][last'.op = "captureAnswerSnapshot" =>
         computeSmoothedSnapshot(frames', calibrationBaseline')
           = getSessionSummary]_vars

\* a capture has just emptied the buffer of a log longer than the window: the
\* summary still counts the whole log while the current snapshot counts none
C26_Witness ==
  /\ last.op = "captureAnswerSnapshot"
  /\ getSessionSummary.frameCount > SMOOTHING_WINDOW
  /\ getCurrentSnapshot.frameCount = 0
  /\ last.ret.frameCount = getSessionSummary.frameCount

IsSuffix(s, t) ==
  Len(s) <= Len(t) /\ SubSeq(t, Len(t) - Len(s) + 1, Len(t)) = s

\* C27: the per-answer buffer is always a suffix of the session log, namely
\* the frames appended since the most recent capture (or since the session
\* began, destroy() starting a new one), in the same order: a capture
\* empties the buffer and keeps the log, destroy() empties both, and every
\* other step appends the same frames to both.
C27_BufferIsSuffixOfLog ==
  /\ [](IsSuffix(currentAnswerFrames, frames))
  /\ [][\/ /\ last'.op = "captureAnswerSnapshot"
           /\ currentAnswerFrames' = <<>>
           /\ frames' = frames
        \/ /\ last'.op # "captureAnswerSnapshot"
           /\ IsPrefix(frames, frames')
           /\ currentAnswerFrames' =
                currentAnswerFrames \o SubSeq(frames', Len(frames) + 1, Len(frames'))
        \/ /\ frames' = <<>>
           /\ currentAnswerFrames' = <<>>
           /\ snapshots' = <<>>]_vars

\* a frame was logged before the capture and another after it: the buffer
\* holds only the later one
C27_Witness ==
  /\ snapshots # <<>>
  /\ Len(frames) = 2
  /\ currentAnswerFrames = <<frames[2]>>

\* C29: isActive() is true exactly when a scheduler interval is armed, and
\* at most one interval is armed at any time.
C29_OneIntervalIffActive ==
  /\ isActive <=> timers # {}
  /\ Cardinality(timers) <= 1
  /\ timers # {} => timers = {detectionInterval}

\* detection is running with its one interval armed and a tick of that
\* interval in flight
C29_Witness ==
  /\ isActive
  /\ timers = {detectionInterval}
  /\ inflight # {}
  /\ last = Other

\* the number of frames of fs with a face and confidence >= MIN_CONFIDENCE
CountValid(fs) ==
  Cardinality({i \in 1..Len(fs) :
                 fs[i].faceDetected /\ RGe(fs[i].confidence, MIN_CONFIDENCE)})

\* C23: frameCount of a snapshot is the number of valid frames in the whole
\* input of computeSmoothedSnapshot, not min(SMOOTHING_WINDOW, that number):
\* for getCurrentSnapshot the valid frames of the per-answer buffer, for
\* getSessionSummary the valid frames of the session log.
C23_FrameCountOfWholeInput ==
  /\ Computed => last.ret.frameCount = CountValid(last.arg)
  /\ getCurrentSnapshot.frameCount = CountValid(currentAnswerFrames)
  /\ getSessionSummary.frameCount = CountValid(frames)

\* more valid frames than the window holds, all of them counted, while the
\* session log of the calibration phase counts its ten frames
C23_Witness ==
  /\ Computed
  /\ CountValid(last.arg) > SMOOTHING_WINDOW
  /\ last.ret.frameCount = CountValid(last.arg)
  /\ getSessionSummary.frameCount = CALIBRATION_FRAMES

\* C24: for a snapshot computed from at least one valid frame, dominant is
\* the category whose calibrated weight is maximal, the first such category
\* in the order of EmotionKeys when several share the maximum; dominant is
\* "unknown" only when there is no valid frame.
C24_DominantIsFirstMaximum ==
  Computed =>
    /\ last.ret.dominant = "unknown" <=> CountValid(last.arg) = 0
    /\ CountValid(last.arg) > 0 =>
         \E i \in 1..7 :
           /\ last.ret.dominant = EmotionKeys[i]
           /\ \A j \in 1..7 :
                RGe(last.ret.scores[EmotionKeys[i]], last.ret.scores[EmotionKeys[j]])
           /\ \A j \in 1..(i - 1) :
                RGt(last.ret.scores[EmotionKeys[i]], last.ret.scores[EmotionKeys[j]])

\* neutral and happy share a positive maximum and neutral, the earlier of
\* the two, is reported
C24_Witness ==
  /\ Computed
  /\ CountValid(last.arg) > 0
  /\ last.ret.scores.neutral = last.ret.scores.happy
  /\ RGt(last.ret.scores.neutral, <<0, 1>>)
  /\ last.ret.dominant = "neutral"

\* max(0, .) of the shifted neutral and happy weights and of the five others
ShiftedClamped(avg, b) ==
  [neutral   |-> RMax(<<0, 1>>, RSub(avg.neutral, RMul(Rat(3, 10), b.neutral))),
   happy     |-> RMax(<<0, 1>>, RAdd(avg.happy, RMul(Rat(5, 100), b.neutral))),
   sad       |-> RMax(<<0, 1>>, avg.sad),
   angry     |-> RMax(<<0, 1>>, avg.angry),
   fearful   |-> RMax(<<0, 1>>, avg.fearful),
   disgusted |-> RMax(<<0, 1>>, avg.disgusted),
   surprised |-> RMax(<<0, 1>>, avg.surprised)]

\* weights divided by their sum, an all-zero record left as it is
Renormalized(w) ==
  IF AllZero(w) THEN w
  ELSE [k \in DOMAIN w |-> RDiv(w[k], ScoreSum(w))]

\* baselines that differ from b in every weight but neutral
SameNeutral(b) ==
  {[c EXCEPT !.neutral = b.neutral] : c \in {DetMixed.expressions, DetBig.expressions}}

\* C25: while the baseline is null the scores of a snapshot are exactly the
\* component-wise average of the window's raw scores; once a baseline b
\* exists they are the renormalization of the weights shifted by b.neutral
\* and clamped at 0, and a baseline with the same neutral weight and other
\* weights elsewhere gives the same scores.
C25_ScoresFromWindowAndNeutral ==
  (Computed /\ CountValid(last.arg) > 0) =>
    IF calibrationBaseline = NullScores
    THEN last.ret.scores = WindowAverage(last.arg)
    ELSE /\ last.ret.scores =
              Renormalized(ShiftedClamped(WindowAverage(last.arg), calibrationBaseline))
         /\ \A c \in SameNeutral(calibrationBaseline) :
              computeSmoothedSnapshot(last.arg, c).scores = last.ret.scores

\* a happy baseline (neutral weight 0, happy weight 1) and a window with
\* neutral weight: the scores are the renormalized window, shifted by nothing
C25_Witness ==
  /\ Computed
  /\ calibrationBaseline # NullScores
  /\ calibrationBaseline.happy = <<1, 1>>
  /\ RGt(WindowAverage(last.arg).neutral, <<0, 1>>)
  /\ last.ret.scores = Renormalized(WindowAverage(last.arg))
  /\ last.ret.scores # WindowAverage(last.arg)

\* C21: the page calls captureAnswerSnapshot() once for each answer it
\* finalizes while affect tracking is ready, before the answer is sent, so
\* that the engine's snapshot list has one entry per answered question, also
\* when a submission fails and the candidate answers the same question again:
\* no question has two captures, and the list is never longer than the
\* number of questions asked.
C21_OneSnapshotPerQuestion ==
  /\ page.capturesHere <= 1
  /\ page.mounted => Len(snapshots) <= page.question

\* C22: the page calls destroy() exactly once, when it unmounts, whatever
\* phase it is in then, and never before; it calls startDetection at most
\* once per session.
C22_DestroyOnceAtTeardown ==
  /\ page.destroyCalls = IF page.mounted THEN 0 ELSE 1
  /\ page.startDetectionCalls <= 1

\* the page was unmounted in its error phase, after its one startDetection
C22_Witness ==
  /\ ~page.mounted
  /\ page.phase = "error"
  /\ page.destroyCalls = 1
  /\ page.startDetectionCalls = 1

\* C28: if the page is torn down (destroy() called) while the engine
\* initialisation started by handleStartInterview is pending, then once the
\* initialisation has finished the engine is not detecting and holds no
\* capture stream.
C28_TornDownInitLeavesNothing ==
  (page.initAtDestroy \in {"loadModels", "startWebcam"} /\ page.init = "done")
    => /\ ~isRunning
       /\ timers = {}
       /\ stream = NullId
       /\ live = {}

\* C30: at most one submitAnswer request is outstanding; isSubmitting is set
\* exactly while a submission awaits its response or the spoken reply, so
\* every exit path has cleared it; and a submitVoiceAnswer call made while
\* isSubmitting is set captures no snapshot and sends no request.
C30_OneSubmissionAtATime ==
  /\ [](/\ page.requests <= 1
        /\ page.isSubmitting <=> page.requests + page.replies = 1)
  /\ [][(page.isSubmitting
          /\ last'.op \in {"submitVoiceAnswer", "captureAnswerSnapshot"})
        => UNCHANGED <<engine, page>>]_vars

\* with affect tracking ready and a request outstanding after an earlier
\* failed submission, a further submitVoiceAnswer call has returned
C30_Witness ==
  /\ page.sessionId
  /\ page.emotionReady
  /\ page.isSubmitting
  /\ page.requests = 1
  /\ page.retries = 1
  /\ Len(snapshots) = 2
  /\ last.op = "submitVoiceAnswer"

\* C10: frames appear in the session log in the order in which their
\* scheduler ticks fired, whatever the order in which the classifier calls
\* complete.
C10_LogInTickOrder ==
  \A i, j \in 1..Len(frameTick) : i < j => frameTick[i] < frameTick[j]

====
